---- MODULE Spec2Model ----
(***************************************************************************)
(* Model of src/main.py: the YAML-to-S-expression converter                *)
(* (YAMLToSExpConverter) and the command-line driver main().               *)
(*                                                                         *)
(* Text is a sequence of Unicode code points (Python str); a Value is a    *)
(* record with a tag and one field per payload, so that every Value has    *)
(* the same shape.                                                         *)
(***************************************************************************)
EXTENDS Integers, Sequences, FiniteSets, TLC

VARIABLES pc, data, sym, sexp, env, stdout, stderr, rc, calls

vars == <<pc, data, sym, sexp, env, stdout, stderr, rc, calls>>

(***************************************************************************)
(* Bounds of the model.                                                    *)
(***************************************************************************)
\* every text over Alphabet of at most this length is an input
MaxShort == 3
\* longest run of one repeated character in a patterned input
MaxRun == 21
\* node count of the largest Value tree built from CoreLeaves
MaxNodes == 5
\* node count of the largest Value tree built from AllLeaves
MaxSmall == 3
\* node count of the largest document main() is run on
MaxDoc == 2

(***************************************************************************)
(* Character classes of Python's re module for str patterns.               *)
(***************************************************************************)
IsUpper(c) == c \in 65..90

IsAsciiLetter(c) == c \in 65..90 \/ c \in 97..122

\* \d of a str pattern: any Unicode decimal digit (category Nd); the table
\* lists the Nd blocks below U+0970.
UnicodeDigit(c) ==
    \/ c \in 48..57
    \/ c \in 1632..1641
    \/ c \in 1776..1785
    \/ c \in 1984..1993
    \/ c \in 2406..2415

\* \w of a str pattern: str.isalnum() or underscore; the table lists the
\* alphanumerics below U+0100 and the Nd blocks above.
UnicodeWord(c) ==
    \/ IsAsciiLetter(c)
    \/ UnicodeDigit(c)
    \/ c = 95
    \/ c \in {170, 178, 179, 181, 185, 186, 188, 189, 190}
    \/ c \in 192..214
    \/ c \in 216..246
    \/ c \in 248..255

\* $ without re.MULTILINE: at the end of the text, or just before a newline
\* that is the last character.  i is the index of the next unread character.
AtDollar(s, i) ==
    \/ i = Len(s) + 1
    \/ (i = Len(s) /\ s[i] = 10)

\* the characters of s from index lo to index hi are all of one class
AllDigits(s, lo, hi) == \A j \in lo..hi : UnicodeDigit(s[j])

AllUpper(s, lo, hi) == \A j \in lo..hi : IsUpper(s[j])

AllWord(s, lo, hi) == \A j \in lo..hi : UnicodeWord(s[j])

\* the pattern without its closing $
mutant_symbol_pattern_1(s) ==
    /\ Len(s) >= 1
    /\ IsUpper(s[1])
    /\ \E k \in 4..6 :
          /\ k + 1 <= Len(s)
          /\ AllDigits(s, 2, k + 1)

\* r'^[A-Z]\d{4,6}$'
symbol_pattern_1(s) ==
    /\ Len(s) >= 1
    /\ IsUpper(s[1])
    /\ \E k \in 4..6 :
          /\ k + 1 <= Len(s)
          /\ AllDigits(s, 2, k + 1)
          /\ AtDollar(s, k + 2)

\* r'^[A-Z]{2,3}$'
symbol_pattern_2(s) ==
    \E k \in 2..3 :
       /\ k <= Len(s)
       /\ AllUpper(s, 1, k)
       /\ AtDollar(s, k + 1)

\* r'^[a-zA-Z_]\w*$'
symbol_pattern_3(s) ==
    /\ Len(s) >= 1
    /\ (IsAsciiLetter(s[1]) \/ s[1] = 95)
    /\ \E k \in 0..(Len(s) - 1) :
          /\ AllWord(s, 2, k + 1)
          /\ AtDollar(s, k + 2)

\* symbol_regex.match(s): the alternation of the three patterns, from index 0
symbol_regex(s) ==
    symbol_pattern_1(s) \/ symbol_pattern_2(s) \/ symbol_pattern_3(s)

MaxSymbolLen == 20

is_symbol(s) ==
    IF Len(s) = 0 \/ Len(s) > MaxSymbolLen THEN FALSE ELSE symbol_regex(s)

(***************************************************************************)
(* Escaping.                                                               *)
(***************************************************************************)
\* escape_pattern: r'(["\\]|[\x00-\x1f\x7f])'
escape_pattern(c) == c = 34 \/ c = 92 \/ c \in 0..31 \/ c = 127

\* one lowercase hexadecimal digit, as a code point
HexDigit(n) == IF n < 10 THEN 48 + n ELSE 97 + (n - 10)

\* the double quote left unescaped
mutant_escape_char(c) ==
    IF c = 34 THEN <<34>>
    ELSE IF c = 92 THEN <<92, 92>>
    ELSE IF c = 10 THEN <<92, 110>>
    ELSE IF c = 13 THEN <<92, 114>>
    ELSE IF c = 9 THEN <<92, 116>>
    ELSE <<92, 120, HexDigit(c \div 16), HexDigit(c % 16)>>

escape_char(c) ==
    IF c = 34 THEN <<92, 34>>
    ELSE IF c = 92 THEN <<92, 92>>
    ELSE IF c = 10 THEN <<92, 110>>
    ELSE IF c = 13 THEN <<92, 114>>
    ELSE IF c = 9 THEN <<92, 116>>
    ELSE <<92, 120, HexDigit(c \div 16), HexDigit(c % 16)>>

RECURSIVE escape_string(_)
escape_string(s) ==
    IF Len(s) = 0 THEN <<>>
    ELSE (IF escape_pattern(Head(s)) THEN escape_char(Head(s)) ELSE <<Head(s)>>)
         \o escape_string(Tail(s))

(***************************************************************************)
(* Values: what yaml.safe_load returns.  tag names the Python type; b is   *)
(* the bool, n the numeric payload, s the text, keys and kids the keys and *)
(* the values of a dict in insertion order, kids the items of a list.      *)
(*   Int      n = <<value>>                                                *)
(*   Float    n = <<num, den>>: num/den, with <<0,0>> NaN, <<1,0>> +inf,   *)
(*            <<-1,0>> -inf; finite floats are the halves <<h, 2>>         *)
(*   Date     n = <<year, month, day>>                                     *)
(*   DateTime n = <<year, month, day, hour, minute, second>>               *)
(*   Iterable any other iterable that is not str or bytes (a set); kids is *)
(*            its iteration order                                          *)
(*   Opaque   any other object; s is its str()                             *)
(***************************************************************************)
V(tag, b, n, s, keys, kids) ==
    [tag |-> tag, b |-> b, n |-> n, s |-> s, keys |-> keys, kids |-> kids]

PyNone == V("None", FALSE, <<>>, <<>>, <<>>, <<>>)

PyBool(b) == V("Bool", b, <<>>, <<>>, <<>>, <<>>)

PyInt(i) == V("Int", FALSE, <<i>>, <<>>, <<>>, <<>>)

PyFloat(num, den) == V("Float", FALSE, <<num, den>>, <<>>, <<>>, <<>>)

PyStr(s) == V("Str", FALSE, <<>>, s, <<>>, <<>>)

PyDate(y, m, d) == V("Date", FALSE, <<y, m, d>>, <<>>, <<>>, <<>>)

PyDateTime(y, m, d, hh, mm, ss) ==
    V("DateTime", FALSE, <<y, m, d, hh, mm, ss>>, <<>>, <<>>, <<>>)

PyList(items) == V("List", FALSE, <<>>, <<>>, <<>>, items)

PyDict(keys, values) == V("Dict", FALSE, <<>>, <<>>, keys, values)

PyIterable(items) == V("Iterable", FALSE, <<>>, <<>>, <<>>, items)

PyOpaque(s) == V("Opaque", FALSE, <<>>, s, <<>>, <<>>)

(***************************************************************************)
(* The converter.                                                          *)
(***************************************************************************)
\* self.key_prefix, the default "yaml"
key_prefix == <<121, 97, 109, 108>>

\* str(int): decimal digits, a minus sign when negative
RECURSIVE Digits(_)
Digits(i) ==
    IF i < 10 THEN <<48 + i>> ELSE Digits(i \div 10) \o <<48 + (i % 10)>>

IntStr(i) == IF i < 0 THEN <<45>> \o Digits(0 - i) ELSE Digits(i)

\* format spec 02d, of a number that is not negative
Pad2(i) == IF i < 10 THEN <<48>> \o Digits(i) ELSE Digits(i)

\* str(float) of a finite half h/2: repr keeps one fractional digit
FloatStr(h) ==
    LET a == IF h < 0 THEN 0 - h ELSE h
    IN  (IF h < 0 THEN <<45>> ELSE <<>>)
        \o Digits(a \div 2) \o <<46>> \o (IF a % 2 = 0 THEN <<48>> ELSE <<53>>)

\* ' '.join(parts)
RECURSIVE join(_)
join(parts) ==
    IF Len(parts) = 0 THEN <<>>
    ELSE IF Len(parts) = 1 THEN parts[1]
    ELSE parts[1] \o <<32>> \o join(Tail(parts))

\* f'(make-date {year} {month:02d} {day:02d})'
format_date(y, m, d) ==
    <<40, 109, 97, 107, 101, 45, 100, 97, 116, 101, 32>>
    \o IntStr(y) \o <<32>> \o Pad2(m) \o <<32>> \o Pad2(d) \o <<41>>

\* any() where the code has all()
mutant_is_list_of_records(items) ==
    IF Len(items) = 0 THEN FALSE
    ELSE \E i \in 1..Len(items) : items[i].tag = "Dict"

is_list_of_records(items) ==
    IF Len(items) = 0 THEN FALSE
    ELSE \A i \in 1..Len(items) : items[i].tag = "Dict"

\* the key without its prefix
mutant_dict_part(key, converted_value) ==
    <<40>> \o key \o <<32>> \o converted_value \o <<41>>

\* f'({prefixed_key} {converted_value})' with prefixed_key = f'{key_prefix}:{key}'
dict_part(key, converted_value) ==
    <<40>> \o key_prefix \o <<58>> \o key \o <<32>> \o converted_value \o <<41>>

\* the closing parenthesis left out
mutant_item_part(record_sexp) ==
    <<40>> \o key_prefix \o <<58, 105, 116, 101, 109, 32>> \o record_sexp

\* f'({key_prefix}:item {record_sexp})'
item_part(record_sexp) ==
    <<40>> \o key_prefix \o <<58, 105, 116, 101, 109, 32>> \o record_sexp \o <<41>>

\* the joined elements without the parentheses around them
mutant_list_wrap(elements) == join(elements)

\* f'({" ".join(elements)})'
list_wrap(elements) == <<40>> \o join(elements) \o <<41>>

\* the str branch of to_sexp
text_sexp(s) ==
    IF is_symbol(s) THEN <<39>> \o s ELSE <<34>> \o escape_string(s) \o <<34>>

\* return '()' of the dict branch
empty_dict_sexp == <<40, 41>>

\* the empty check left out: ' '.join of no parts
mutant_empty_list_sexp == <<>>

\* return '()' of the list branch
empty_list_sexp == <<40, 41>>

RECURSIVE to_sexp(_)
to_sexp(d) ==
    CASE d.tag = "Dict" ->
           IF Len(d.kids) = 0 THEN empty_dict_sexp
           ELSE join([i \in 1..Len(d.kids) |->
                        dict_part(d.keys[i], to_sexp(d.kids[i]))])
      [] d.tag = "List" ->
           IF Len(d.kids) = 0 THEN empty_list_sexp
           ELSE IF is_list_of_records(d.kids)
           THEN join([i \in 1..Len(d.kids) |-> item_part(to_sexp(d.kids[i]))])
           ELSE list_wrap([i \in 1..Len(d.kids) |-> to_sexp(d.kids[i])])
      [] d.tag = "Str" -> text_sexp(d.s)
      [] d.tag = "Bool" -> IF d.b THEN <<35, 116>> ELSE <<35, 102>>
      [] d.tag = "Int" -> IntStr(d.n[1])
      [] d.tag = "Float" ->
           IF d.n = <<0, 0>> THEN <<43, 110, 97, 110, 46, 48>>
           ELSE IF d.n = <<1, 0>> THEN <<43, 105, 110, 102, 46, 48>>
           ELSE IF d.n = <<-1, 0>> THEN <<45, 105, 110, 102, 46, 48>>
           ELSE FloatStr(d.n[1])
      [] d.tag \in {"Date", "DateTime"} -> format_date(d.n[1], d.n[2], d.n[3])
      [] d.tag = "None" -> <<110, 105, 108>>
      [] d.tag = "Iterable" -> to_sexp(PyList(d.kids))
      [] OTHER -> <<34>> \o escape_string(d.s) \o <<34>>

(***************************************************************************)
(* Inputs of the text functions.                                           *)
(***************************************************************************)
\* control characters, space, the two escaped punctuation marks, a
\* parenthesis, a digit, an upper and a lower case letter, the underscore
\* and a non-ASCII letter
Alphabet == {1, 9, 10, 13, 32, 34, 40, 49, 65, 92, 95, 98, 127, 233}

ShortTexts == UNION {[1..n -> Alphabet] : n \in 0..MaxShort}

Run(c, n) == [i \in 1..n |-> c]

\* a first character, a run of one character, a tail: the shapes of the
\* three patterns, up to and beyond the length limit
PatternTexts ==
    {<<h>> \o Run(c, n) \o t :
        h \in {65, 98},
        c \in {49, 65, 233, 1635},
        n \in 0..MaxRun,
        t \in {<<>>, <<10>>, <<32>>, <<0>>, <<31>>, <<41>>, <<10, 10>>}}

TextInputs == ShortTexts \cup PatternTexts

\* the environment of main(), unused by the converter's own specifications
NoEnv == [exists |-> TRUE, open |-> "ok", load |-> "ok", doc |-> PyNone,
          deep |-> FALSE]

(***************************************************************************)
(* SpecSymbol: is_symbol and the str branch of to_sexp, on every text of   *)
(* TextInputs.                                                             *)
(***************************************************************************)
InitSymbol ==
    /\ pc = "str"
    /\ data \in {PyStr(s) : s \in TextInputs}
    /\ sym = FALSE
    /\ sexp = <<>>
    /\ env = NoEnv
    /\ stdout = <<>>
    /\ stderr = <<>>
    /\ rc = -1
    /\ calls = 0

IsSymbol ==
    /\ pc = "str"
    /\ sym' = is_symbol(data.s)
    /\ pc' = "classified"
    /\ UNCHANGED <<data, sexp, env, stdout, stderr, rc, calls>>

ToSexpStr ==
    /\ pc = "classified"
    /\ sexp' = to_sexp(data)
    /\ pc' = "emitted"
    /\ UNCHANGED <<data, sym, env, stdout, stderr, rc, calls>>

NextSymbol == IsSymbol \/ ToSexpStr

SpecSymbol == InitSymbol /\ [][NextSymbol]_vars

(***************************************************************************)
(* Inputs of to_sexp: Value trees.                                         *)
(***************************************************************************)
\* "id" and "a b"
Keys == {<<105, 100>>, <<97, 32, 98>>}

\* the sequences of k distinct keys: a dict's keys are unique
KeySeqs(k) ==
    {ks \in [1..k -> Keys] : \A i, j \in 1..k : i # j => ks[i] # ks[j]}

\* the text "( (a double quote and an opening parenthesis), which is not a
\* symbol
CoreLeaves == {PyStr(<<34, 40>>)}

\* one scalar or more of every type to_sexp tells apart
AllLeaves ==
    CoreLeaves \cup
    {PyNone, PyBool(TRUE), PyBool(FALSE), PyInt(-30),
     PyFloat(0, 0), PyFloat(1, 0), PyFloat(-1, 0), PyFloat(3, 2),
     PyStr(<<98>>), PyStr(<<98, 10>>),
     PyDate(2024, 3, 7), PyDateTime(2024, 12, 25, 10, 30, 0),
     PyOpaque(<<98, 39, 40, 39>>), PyIterable(<<PyInt(1)>>)}

\* every sequence of distinct keys
AllKeySeqs == UNION {KeySeqs(k) : k \in 0..Cardinality(Keys)}

\* the lists and the dicts over the sequences of children in forests
Containers(forests) ==
    {PyList(f) : f \in forests}
    \cup {PyDict(p[1], p[2]) :
             p \in {q \in AllKeySeqs \X forests : Len(q[1]) = Len(q[2])}}

\* T[k] is the set of trees with exactly k nodes whose scalars come from
\* leaves, F[m] the set of sequences of such trees with m nodes in all;
\* the tables are grown one size at a time up to n, and T is returned
RECURSIVE Grow(_, _, _, _)
Grow(leaves, T, F, n) ==
    IF Len(T) >= n THEN T
    ELSE LET k == Len(T) + 1
             Tk == IF k = 1
                   THEN leaves \cup {PyList(<<>>), PyDict(<<>>, <<>>)}
                   ELSE Containers(F[k - 1])
             T2 == Append(T, Tk)
             Rest(m) == IF m = 0 THEN {<<>>} ELSE F[m]
             Fk == IF k >= n THEN {}
                   ELSE UNION {{<<v>> \o f : v \in T2[j], f \in Rest(k - j)} :
                                  j \in 1..k}
         IN  Grow(leaves, T2, Append(F, Fk), n)

TreesUpTo(leaves, n) ==
    LET T == Grow(leaves, <<>>, <<>>, n) IN UNION {T[k] : k \in 1..n}

\* {name: Alice, age: 30}
ExampleDict ==
    PyDict(<<(<<110, 97, 109, 101>>), (<<97, 103, 101>>)>>,
           <<PyStr(<<65, 108, 105, 99, 101>>), PyInt(30)>>)

\* [{id: 1}, {id: 2}]
ExampleRecords ==
    PyList(<<PyDict(<<(<<105, 100>>)>>, <<PyInt(1)>>),
             PyDict(<<(<<105, 100>>)>>, <<PyInt(2)>>)>>)

\* [1, "a b", true]
ExampleScalars == PyList(<<PyInt(1), PyStr(<<97, 32, 98>>), PyBool(TRUE)>>)

Values ==
    TreesUpTo(CoreLeaves, MaxNodes) \cup TreesUpTo(AllLeaves, MaxSmall)
    \cup {ExampleDict, ExampleRecords, ExampleScalars}

(***************************************************************************)
(* SpecEncoder: to_sexp on every Value tree of Values.                     *)
(***************************************************************************)
InitEncoder ==
    /\ pc = "value"
    /\ data \in Values
    /\ sym = FALSE
    /\ sexp = <<>>
    /\ env = NoEnv
    /\ stdout = <<>>
    /\ stderr = <<>>
    /\ rc = -1
    /\ calls = 0

ToSexp ==
    /\ pc = "value"
    /\ sexp' = to_sexp(data)
    /\ pc' = "encoded"
    /\ UNCHANGED <<data, sym, env, stdout, stderr, rc, calls>>

NextEncoder == ToSexp

SpecEncoder == InitEncoder /\ [][NextEncoder]_vars

(***************************************************************************)
(* Spec: one run of main().  env is what the run finds outside itself:     *)
(* whether the path exists, what open() and yaml.safe_load() do, the       *)
(* document they return, and whether that document is nested deeper than   *)
(* the interpreter's recursion limit allows (an alias can even make it     *)
(* cyclic), in which case to_sexp raises RecursionError.                   *)
(* stderr holds the messages printed to it, stdout the text printed.       *)
(***************************************************************************)
Docs == TreesUpTo(AllLeaves, MaxDoc) \cup {ExampleDict, ExampleRecords, ExampleScalars}

Envs ==
    [exists : BOOLEAN, open : {"ok", "FileNotFoundError", "OSError"},
     load : {"ok", "YAMLError"}, doc : Docs, deep : BOOLEAN]

Init ==
    /\ pc = "start"
    /\ env \in Envs
    /\ data = PyNone
    /\ sym = FALSE
    /\ sexp = <<>>
    /\ stdout = <<>>
    /\ stderr = <<>>
    /\ rc = -1
    /\ calls = 0

\* the null check left out
mutant_validate_yaml_structure(d) == TRUE

\* validate_yaml_structure returns True (TRUE), or raises ValueError (FALSE)
validate_yaml_structure(d) == d # PyNone

\* except Exception as e: print(f"Unexpected error: {e}", file=sys.stderr); return 1
Unexpected ==
    /\ stderr' = Append(stderr, "Unexpected error")
    /\ rc' = 1
    /\ pc' = "exit"

\* if not input_path.exists(): two lines on stderr, return 1
PathExists ==
    /\ pc = "start"
    /\ IF env.exists
       THEN pc' = "load" /\ UNCHANGED <<stderr, rc>>
       ELSE /\ stderr' = stderr \o <<"Error: Input file not found", "Usage">>
            /\ rc' = 1
            /\ pc' = "exit"
    /\ UNCHANGED <<data, sym, sexp, env, stdout, calls>>

\* with open(...) as file: data = yaml.safe_load(file)
SafeLoad ==
    /\ pc = "load"
    /\ IF env.open = "FileNotFoundError"
       THEN /\ stderr' = Append(stderr, "Error: Could not find file")
            /\ rc' = 1
            /\ pc' = "exit"
            /\ UNCHANGED data
       ELSE IF env.open = "OSError" \/ env.load = "YAMLError"
       THEN Unexpected /\ UNCHANGED data
       ELSE data' = env.doc /\ pc' = "validate" /\ UNCHANGED <<stderr, rc>>
    /\ UNCHANGED <<sym, sexp, env, stdout, calls>>

Validate ==
    /\ pc = "validate"
    /\ IF validate_yaml_structure(data)
       THEN pc' = "convert" /\ UNCHANGED <<stderr, rc>>
       ELSE Unexpected
    /\ UNCHANGED <<data, sym, sexp, env, stdout, calls>>

\* s_expression = converter.to_sexp(data)
Convert ==
    /\ pc = "convert"
    /\ calls' = calls + 1
    /\ IF env.deep
       THEN Unexpected /\ UNCHANGED sexp
       ELSE sexp' = to_sexp(data) /\ pc' = "print" /\ UNCHANGED <<stderr, rc>>
    /\ UNCHANGED <<data, sym, env, stdout>>

\* print(f'({s_expression})'); return 0
PrintResult ==
    /\ pc = "print"
    /\ stdout' = stdout \o <<40>> \o sexp \o <<41>> \o <<10>>
    /\ rc' = 0
    /\ pc' = "exit"
    /\ UNCHANGED <<data, sym, sexp, env, stderr, calls>>

Next == PathExists \/ SafeLoad \/ Validate \/ Convert \/ PrintResult

Spec == Init /\ [][Next]_vars

(***************************************************************************)
(* Claims about symbol classification and escaping (SpecSymbol).           *)
(***************************************************************************)
IsAsciiDigit(c) == c \in 48..57

IsAsciiWord(c) == IsAsciiLetter(c) \/ IsAsciiDigit(c) \/ c = 95

\* the three shapes as the specification words them: the whole text matches
ClaimedShape1(s) ==
    /\ Len(s) \in 5..7
    /\ IsUpper(s[1])
    /\ \A j \in 2..Len(s) : IsAsciiDigit(s[j])

ClaimedShape2(s) == Len(s) \in 2..3 /\ \A j \in 1..Len(s) : IsUpper(s[j])

ClaimedShape3(s) ==
    /\ Len(s) >= 1
    /\ (IsAsciiLetter(s[1]) \/ s[1] = 95)
    /\ \A j \in 2..Len(s) : IsAsciiWord(s[j])

ClaimedSymbol(s) ==
    /\ Len(s) \in 1..20
    /\ (ClaimedShape1(s) \/ ClaimedShape2(s) \/ ClaimedShape3(s))

\* C1: is_symbol(s) is true exactly when s has 1 to 20 characters and, as a
\* whole, has one of the three ASCII shapes; so no text with a non-ASCII
\* character, a whitespace or a line terminator is a symbol.
C1_IsSymbolIffClaimedShape ==
    pc = "classified" => (sym <=> ClaimedSymbol(data.s))

\* C2: a text emitted on the symbol path holds no character that
\* escape_string would rewrite, so the bare token equals its escaped form.
C2_SymbolNeedsNoEscaping ==
    (pc = "emitted" /\ sym) =>
        /\ \A i \in 1..Len(data.s) : ~escape_pattern(data.s[i])
        /\ sexp = <<39>> \o escape_string(data.s)

\* the number of consecutive backslashes that end just before index i
RECURSIVE BackslashRun(_, _)
BackslashRun(t, i) ==
    IF i > 1 /\ t[i - 1] = 92 THEN 1 + BackslashRun(t, i - 1) ELSE 0

\* the index of the first double quote at or after i that no backslash
\* escapes, reading left to right; 0 when there is none
RECURSIVE FirstUnescapedQuote(_, _)
FirstUnescapedQuote(t, i) ==
    IF i > Len(t) THEN 0
    ELSE IF t[i] = 92 THEN FirstUnescapedQuote(t, i + 2)
    ELSE IF t[i] = 34 THEN i
    ELSE FirstUnescapedQuote(t, i + 1)

HexValue(c) == IF c \in 48..57 THEN c - 48 ELSE c - 97 + 10

\* a reader of the escapes: the text a string literal's body stands for
RECURSIVE Unescape(_)
Unescape(t) ==
    IF Len(t) = 0 THEN <<>>
    ELSE IF t[1] = 92 /\ Len(t) >= 2
    THEN IF t[2] = 110 THEN <<10>> \o Unescape(SubSeq(t, 3, Len(t)))
         ELSE IF t[2] = 114 THEN <<13>> \o Unescape(SubSeq(t, 3, Len(t)))
         ELSE IF t[2] = 116 THEN <<9>> \o Unescape(SubSeq(t, 3, Len(t)))
         ELSE IF t[2] = 120 /\ Len(t) >= 4
         THEN <<16 * HexValue(t[3]) + HexValue(t[4])>>
              \o Unescape(SubSeq(t, 5, Len(t)))
         ELSE <<t[2]>> \o Unescape(SubSeq(t, 3, Len(t)))
    ELSE <<t[1]>> \o Unescape(Tail(t))

IsPlain(c) == ~(c = 34 \/ c = 92 \/ c \in 0..31 \/ c = 127)

\* C3: the body of the literal emitted for a non-symbol text holds no raw
\* control character, every double quote in it follows an odd number of
\* backslashes, the first unescaped double quote after the opening one is
\* the closing one, and the plain characters pass through unchanged.
C3_QuotedLiteralIsSafe ==
    (pc = "emitted" /\ ~sym) =>
        LET n == Len(sexp)
            body == SubSeq(sexp, 2, n - 1)
        IN  /\ n >= 2
            /\ sexp[1] = 34
            /\ sexp[n] = 34
            /\ \A i \in 1..Len(body) : ~(body[i] \in 0..31 \/ body[i] = 127)
            /\ \A i \in 1..Len(body) :
                  body[i] = 34 => BackslashRun(body, i) % 2 = 1
            /\ FirstUnescapedQuote(sexp, 2) = n
            /\ Unescape(body) = data.s
            /\ SelectSeq(data.s, IsPlain) = data.s => body = data.s

C3_Witness ==
    /\ pc = "emitted"
    /\ ~sym
    /\ data.s = <<92, 34, 10>>
    /\ sexp = <<34, 92, 92, 92, 34, 92, 110, 34>>

IsSymbolPattern3Only(s) ==
    IF Len(s) = 0 \/ Len(s) > MaxSymbolLen THEN FALSE ELSE symbol_pattern_3(s)

\* C9: patterns 1 and 2 add nothing to pattern 3: whatever they accept
\* pattern 3 accepts, is_symbol equals the test with pattern 3 alone, and
\* the str branch of to_sexp emits the same text with either test.
C9_PatternsOneTwoRedundant ==
    /\ (symbol_pattern_1(data.s) \/ symbol_pattern_2(data.s))
          => symbol_pattern_3(data.s)
    /\ pc = "classified" => (sym <=> IsSymbolPattern3Only(data.s))
    /\ pc = "emitted" =>
          sexp = IF IsSymbolPattern3Only(data.s)
                 THEN <<39>> \o data.s
                 ELSE <<34>> \o escape_string(data.s) \o <<34>>

C9_Witness ==
    /\ pc = "emitted"
    /\ symbol_pattern_1(data.s)
    /\ ~symbol_pattern_2(data.s)
    /\ sexp = <<39>> \o data.s

(***************************************************************************)
(* A reader of the emitted text, for the claims about its structure.       *)
(* Members are separated by single spaces; a member is a string literal,   *)
(* a parenthesized group or an atom.                                       *)
(***************************************************************************)
\* the index after the group whose opening parenthesis was read, depth
\* parentheses being open at index i; parentheses in string literals are
\* skipped
RECURSIVE GroupEnd(_, _, _)
GroupEnd(t, i, depth) ==
    IF i > Len(t) THEN Len(t) + 1
    ELSE IF t[i] = 34
    THEN LET j == FirstUnescapedQuote(t, i + 1)
         IN  IF j = 0 THEN Len(t) + 1 ELSE GroupEnd(t, j + 1, depth)
    ELSE IF t[i] = 40 THEN GroupEnd(t, i + 1, depth + 1)
    ELSE IF t[i] = 41
    THEN IF depth = 1 THEN i + 1 ELSE GroupEnd(t, i + 1, depth - 1)
    ELSE GroupEnd(t, i + 1, depth)

RECURSIVE AtomEnd(_, _)
AtomEnd(t, i) ==
    IF i > Len(t) \/ t[i] \in {32, 34, 40, 41} THEN i ELSE AtomEnd(t, i + 1)

\* the index after the member that starts at index i
MemberEnd(t, i) ==
    IF t[i] = 34
    THEN LET j == FirstUnescapedQuote(t, i + 1)
         IN  IF j = 0 THEN Len(t) + 1 ELSE j + 1
    ELSE IF t[i] = 40 THEN GroupEnd(t, i + 1, 1)
    ELSE IF t[i] = 41 THEN i + 1
    ELSE AtomEnd(t, i)

\* the top-level members of t from index i on, in order
RECURSIVE MembersFrom(_, _)
MembersFrom(t, i) ==
    IF i > Len(t) THEN <<>>
    ELSE IF t[i] = 32 THEN MembersFrom(t, i + 1)
    ELSE LET e == MemberEnd(t, i)
         IN  <<SubSeq(t, i, e - 1)>> \o MembersFrom(t, e)

Members(t) == MembersFrom(t, 1)

\* parentheses outside string literals: never more closed than opened, all
\* closed at the end, and every string literal closed
RECURSIVE BalancedFrom(_, _, _)
BalancedFrom(t, i, depth) ==
    IF i > Len(t) THEN depth = 0
    ELSE IF t[i] = 34
    THEN LET j == FirstUnescapedQuote(t, i + 1)
         IN  j # 0 /\ BalancedFrom(t, j + 1, depth)
    ELSE IF t[i] = 40 THEN BalancedFrom(t, i + 1, depth + 1)
    ELSE IF t[i] = 41 THEN depth > 0 /\ BalancedFrom(t, i + 1, depth - 1)
    ELSE BalancedFrom(t, i + 1, depth)

Balanced(t) == BalancedFrom(t, 1, 0)

RECURSIVE SpaceJoined(_)
SpaceJoined(parts) ==
    IF Len(parts) = 0 THEN <<>>
    ELSE IF Len(parts) = 1 THEN parts[1]
    ELSE parts[1] \o <<32>> \o SpaceJoined(Tail(parts))

\* one atom, one string literal or one balanced group, and nothing else
SelfContained(t) ==
    /\ Len(t) > 0
    /\ Balanced(t)
    /\ Members(t) = <<t>>

IsEmptyContainer(v) == v.tag \in {"Dict", "List"} /\ Len(v.kids) = 0

AllDicts(items) == \A i \in 1..Len(items) : items[i].tag = "Dict"

\* the list of records, as the specification words it
Records(v) == v.tag = "List" /\ Len(v.kids) > 0 /\ AllDicts(v.kids)

Mixed(v) == v.tag = "List" /\ Len(v.kids) > 0 /\ ~AllDicts(v.kids)

Encodings(v) == [i \in 1..Len(v.kids) |-> to_sexp(v.kids[i])]

\* "(yaml:" key " " encoding ")"
PairText(key, enc) ==
    <<40, 121, 97, 109, 108, 58>> \o key \o <<32>> \o enc \o <<41>>

\* "(yaml:item " encoding ")"
ItemText(enc) == PairText(<<105, 116, 101, 109>>, enc)

(***************************************************************************)
(* Claims about to_sexp on Value trees (SpecEncoder).                      *)
(***************************************************************************)
\* C4 as stated: a non-empty Sequence that is not a list of records is
\* emitted as one parenthesized list of the elements' encodings joined by
\* single spaces, each encoding a self-contained fragment, so that the list
\* has as many top-level members as the Sequence has elements.
C4_ListHasOneMemberPerElement ==
    (pc = "encoded" /\ Mixed(data)) =>
        LET n == Len(sexp)
            inner == SubSeq(sexp, 2, n - 1)
        IN  /\ sexp[1] = 40
            /\ sexp[n] = 41
            /\ Members(sexp) = <<sexp>>
            /\ inner = SpaceJoined(Encodings(data))
            /\ \A i \in 1..Len(data.kids) : SelfContained(to_sexp(data.kids[i]))
            /\ Len(Members(inner)) = Len(data.kids)

\* the number of top-level members an element contributes
Spread(v) ==
    IF v.tag = "Dict" /\ Len(v.kids) > 0 THEN Len(v.kids)
    ELSE IF v.tag \in {"List", "Iterable"} /\ Len(v.kids) > 0 /\ AllDicts(v.kids)
    THEN Len(v.kids)
    ELSE 1

RECURSIVE SumSpread(_, _)
SumSpread(items, k) ==
    IF k = 0 THEN 0 ELSE Spread(items[k]) + SumSpread(items, k - 1)

\* C4 as amended: the list is one parenthesized group of the encodings
\* joined by single spaces; an element's encoding is self-contained unless
\* the element is a Mapping of two or more pairs or a list of two or more
\* records, which contributes one member per pair or record; the member
\* count equals the element count when no element is of that kind.
C4_ListMembersFollowSpread ==
    (pc = "encoded" /\ Mixed(data)) =>
        LET n == Len(sexp)
            inner == SubSeq(sexp, 2, n - 1)
        IN  /\ sexp[1] = 40
            /\ sexp[n] = 41
            /\ Members(sexp) = <<sexp>>
            /\ inner = SpaceJoined(Encodings(data))
            /\ \A i \in 1..Len(data.kids) :
                  /\ Len(Members(to_sexp(data.kids[i]))) = Spread(data.kids[i])
                  /\ Spread(data.kids[i]) = 1
                        <=> SelfContained(to_sexp(data.kids[i]))
            /\ Len(Members(inner)) = SumSpread(data.kids, Len(data.kids))
            /\ (\A i \in 1..Len(data.kids) : Spread(data.kids[i]) = 1)
                  => Members(inner) = Encodings(data)

C4_Witness ==
    /\ pc = "encoded"
    /\ Mixed(data)
    /\ \E i \in 1..Len(data.kids) :
          data.kids[i].tag = "Dict" /\ Len(data.kids[i].kids) = 2
    /\ Len(Members(SubSeq(sexp, 2, Len(sexp) - 1))) = Len(data.kids) + 1

\* C5: a non-empty Mapping of n pairs is emitted as n fragments
\* (<prefix>:<key> <encoding of the value>), in insertion order, joined by
\* single spaces, with no parentheses around them; {name: Alice, age: 30}
\* gives (yaml:name 'Alice) (yaml:age 30).
C5_DictEmitsOnePairPerKey ==
    /\ (pc = "encoded" /\ data.tag = "Dict" /\ Len(data.kids) > 0) =>
          LET m == Members(sexp)
          IN  /\ Len(m) = Len(data.kids)
              /\ \A i \in 1..Len(data.kids) :
                    m[i] = PairText(data.keys[i], to_sexp(data.kids[i]))
              /\ sexp = SpaceJoined(m)
    /\ (pc = "encoded" /\ data = ExampleDict) =>
          sexp = <<40, 121, 97, 109, 108, 58, 110, 97, 109, 101, 32, 39, 65,
                   108, 105, 99, 101, 41, 32, 40, 121, 97, 109, 108, 58, 97,
                   103, 101, 32, 51, 48, 41>>

C5_Witness ==
    /\ pc = "encoded"
    /\ data.tag = "Dict"
    /\ Len(data.kids) = 2
    /\ data.kids[1].tag = "List"
    /\ Len(Members(sexp)) = 2

\* every top-level member of t is an item fragment
ItemForm(t) ==
    /\ Len(Members(t)) > 0
    /\ \A i \in 1..Len(Members(t)) :
          /\ Len(Members(t)[i]) > 11
          /\ SubSeq(Members(t)[i], 1, 11)
                = <<40, 121, 97, 109, 108, 58, 105, 116, 101, 109, 32>>

\* C6: a Sequence is a list of records exactly when it is non-empty and all
\* its elements are Mappings; it is then emitted as one fragment
\* (<prefix>:item <encoding>) per element, in order, joined by single
\* spaces, with no outer parentheses; [{id: 1}, {id: 2}] gives
\* (yaml:item (yaml:id 1)) (yaml:item (yaml:id 2)).
C6_RecordsEmitOneItemPerElement ==
    /\ (pc = "encoded" /\ data.tag = "List") =>
          /\ is_list_of_records(data.kids) <=> Records(data)
          /\ ItemForm(sexp) <=> Records(data)
          /\ Records(data) =>
                LET m == Members(sexp)
                IN  /\ Len(m) = Len(data.kids)
                    /\ \A i \in 1..Len(data.kids) :
                          m[i] = ItemText(to_sexp(data.kids[i]))
                    /\ sexp = SpaceJoined(m)
    /\ (pc = "encoded" /\ data = ExampleRecords) =>
          sexp = <<40, 121, 97, 109, 108, 58, 105, 116, 101, 109, 32, 40, 121,
                   97, 109, 108, 58, 105, 100, 32, 49, 41, 41, 32, 40, 121, 97,
                   109, 108, 58, 105, 116, 101, 109, 32, 40, 121, 97, 109, 108,
                   58, 105, 100, 32, 50, 41, 41>>

C6_Witness ==
    /\ pc = "encoded"
    /\ Records(data)
    /\ Len(data.kids) = 2
    /\ Len(data.kids[1].kids) = 2
    /\ Len(Members(sexp)) = 2

\* the index, among the top-level members of a mixed list, of the first
\* member that element i contributes
FirstMember(items, i) == 1 + SumSpread(items, i - 1)

\* the emptiness property at v and at every position below it; enc is the
\* text emitted for v
RECURSIVE EmptiesEmitUnit(_, _)
EmptiesEmitUnit(v, enc) ==
    /\ IsEmptyContainer(v) => enc = <<40, 41>>
    /\ (v.tag = "List" /\ Len(v.kids) = 0) => ~is_list_of_records(v.kids)
    /\ (v.tag = "Dict" /\ Len(v.kids) > 0) =>
          \A i \in 1..Len(v.kids) :
             IsEmptyContainer(v.kids[i]) =>
                Members(enc)[i] = PairText(v.keys[i], <<40, 41>>)
    /\ Records(v) =>
          \A i \in 1..Len(v.kids) :
             IsEmptyContainer(v.kids[i]) =>
                Members(enc)[i] = ItemText(<<40, 41>>)
    /\ Mixed(v) =>
          \A i \in 1..Len(v.kids) :
             IsEmptyContainer(v.kids[i]) =>
                Members(SubSeq(enc, 2, Len(enc) - 1))[FirstMember(v.kids, i)]
                   = <<40, 41>>
    /\ \A i \in 1..Len(v.kids) : EmptiesEmitUnit(v.kids[i], to_sexp(v.kids[i]))

\* C7: at every position of a Value tree that holds an empty Mapping or an
\* empty Sequence (the root, a Mapping value, an element of a list of
\* records or of a mixed list) the emitted fragment is (), and the empty
\* Sequence is not a list of records.
C7_EmptyContainersEmitUnit ==
    pc = "encoded" => EmptiesEmitUnit(data, sexp)

C7_Witness ==
    /\ pc = "encoded"
    /\ Mixed(data)
    /\ Len(data.kids) = 2
    /\ data.kids[1].tag = "Dict"
    /\ Len(data.kids[1].kids) = 2
    /\ IsEmptyContainer(data.kids[1].kids[2])
    /\ IsEmptyContainer(data.kids[2])

\* C10: the text to_sexp returns, and the same text inside the top-level
\* pair of parentheses, has balanced parentheses outside its string
\* literals (the keys of Values hold no parenthesis and no double quote).
C10_ParenthesesBalanced ==
    pc = "encoded" =>
        /\ Balanced(sexp)
        /\ Balanced(<<40>> \o sexp \o <<41>>)

C10_Witness ==
    /\ pc = "encoded"
    /\ Mixed(data)
    /\ data.kids[1].tag = "Dict"
    /\ Len(data.kids[1].kids) = 2
    /\ data.kids[1].kids[1] = PyStr(<<34, 40>>)

(***************************************************************************)
(* Claims about main() (Spec).                                             *)
(***************************************************************************)
\* the run finds a file that opens and decodes to a document that is not
\* null and that the encoder can walk
Succeeds(e) ==
    /\ e.exists
    /\ e.open = "ok"
    /\ e.load = "ok"
    /\ e.doc # PyNone
    /\ ~e.deep

\* the run gets as far as the null check and the document is null, or the
\* file is missing
NeverEncodes(e) ==
    \/ ~e.exists
    \/ e.open = "FileNotFoundError"
    \/ (e.open = "ok" /\ e.load = "ok" /\ e.doc = PyNone)

\* C8: a run of main ends in one of two ways.  Success (the file exists and
\* decodes to a value that is not null): the encoder is called once, stdout
\* receives "(" + to_sexp(value) + ")" and a newline, the exit code is 0.
\* Failure (missing file, decoding failure, null document, or the encoder
\* raising): the exit code is not 0, stderr has a message, stdout has
\* nothing, and for a missing file or a null document the encoder is never
\* called.  Until it has ended the run can always take a step.
C8_MainEndsInSuccessOrFailure ==
    /\ pc # "exit" => (rc = -1 /\ stdout = <<>> /\ ENABLED Next)
    /\ pc = "exit" =>
          IF Succeeds(env)
          THEN /\ calls = 1
               /\ stdout = <<40>> \o to_sexp(env.doc) \o <<41, 10>>
               /\ rc = 0
          ELSE /\ rc # 0
               /\ rc # -1
               /\ Len(stderr) > 0
               /\ stdout = <<>>
               /\ NeverEncodes(env) => calls = 0

C8_Witness ==
    /\ pc = "exit"
    /\ rc = 0
    /\ env.doc = ExampleDict
    /\ calls = 1
    /\ stdout = <<40, 40, 121, 97, 109, 108, 58, 110, 97, 109, 101, 32, 39, 65,
                  108, 105, 99, 101, 41, 32, 40, 121, 97, 109, 108, 58, 97, 103,
                  101, 32, 51, 48, 41, 41, 10>>

====
